---- MODULE Spec2Model ----
(***************************************************************************)
(* Mullvad device manager (src/main.py): the monitoring loop, identity     *)
(* resolution with re-authentication, whitelist loading and the device     *)
(* reconciliation pass, together with the account and control client they  *)
(* drive.                                                                   *)
(*                                                                         *)
(* Text is a sequence of tokens: a token is a word, " " or "\n".  Device   *)
(* names, the token and log texts are token sequences, so that strip(),    *)
(* splitlines() and replace() are computed as Python computes them.        *)
(***************************************************************************)
EXTENDS Integers, Sequences, FiniteSets, TLC

\* Bounds of the model.
MaxPasses == 2
MaxDevices == 3
MaxEnvChanges == 1

----------------------------------------------------------------------------
\* Text helpers (str.strip, str.splitlines, str.replace, ' '.join).

Range(s) == { s[i] : i \in 1..Len(s) }

Whitespace == {" ", "\n"}

RECURSIVE LStrip(_)
LStrip(s) ==
    IF s # <<>> /\ Head(s) \in Whitespace THEN LStrip(Tail(s)) ELSE s

RECURSIVE RStrip(_)
RStrip(s) ==
    IF s # <<>> /\ s[Len(s)] \in Whitespace
    THEN RStrip(SubSeq(s, 1, Len(s) - 1))
    ELSE s

Strip(s) == RStrip(LStrip(s))

FirstNewline(s) ==
    IF \E i \in 1..Len(s) : s[i] = "\n"
    THEN CHOOSE i \in 1..Len(s) : s[i] = "\n" /\ \A j \in 1..(i - 1) : s[j] # "\n"
    ELSE Len(s) + 1

RECURSIVE SplitLines(_)
SplitLines(s) ==
    IF s = <<>> THEN <<>>
    ELSE LET i == FirstNewline(s)
         IN  <<SubSeq(s, 1, i - 1)>> \o
             (IF i >= Len(s) THEN <<>> ELSE SplitLines(SubSeq(s, i + 1, Len(s))))

Replace(s, tok) == SelectSeq(s, LAMBDA t : t # tok)

RECURSIVE JoinLines(_)
JoinLines(ls) ==
    IF ls = <<>> THEN <<>> ELSE Head(ls) \o <<"\n">> \o JoinLines(Tail(ls))

RemoveName(seq, d) == SelectSeq(seq, LAMBDA x : x # d)

----------------------------------------------------------------------------
\* Device names, files and the control client's output.

NoDevice == <<>>
BaseDevices == { <<"laptop-9">>, <<"phone-1">>, <<"tablet-7">> }
FreshDevices == { <<"laptop-10">> }
AllDevices == BaseDevices \cup FreshDevices

InjectiveSeqs(S, n) ==
    { s \in UNION { [1..k -> S] : k \in 1..n } :
        \A i, j \in 1..Len(s) : i # j => s[i] # s[j] }

TokenFiles ==
    { [exists |-> FALSE, text |-> <<>>],
      [exists |-> TRUE,  text |-> <<" ", "\n">>],
      [exists |-> TRUE,  text |-> <<"secret123", "\n">>] }

WhitelistFiles ==
    { [exists |-> FALSE, text |-> <<>>],
      [exists |-> TRUE,  text |-> <<"phone-1", "\n">>],
      [exists |-> TRUE,  text |-> <<" ", "phone-1", " ", "\n", "\n", "tablet-7", "\n">>] }

DeviceListHeader == <<"Devices on the account:">>
DeviceNameLabel == "Device name:"

\* stdout of "mullvad account list-devices" for the account's devices.
ListStdout(acct) == JoinLines(<<DeviceListHeader>> \o acct)

\* stdout of "mullvad account get" when the client shows a device.
StatusStdout(dev) ==
    JoinLines(<< <<"Mullvad account:", " ", "1234">>,
                 <<"Expires at:", " ", "2030">>,
                 <<DeviceNameLabel, " ">> \o dev >>)

\* stdout of "mullvad account get" when it shows no authenticated state.
BadStatusStdouts ==
    { <<>>,
      JoinLines(<< <<"Mullvad account:", " ", "1234">>, <<"Device revoked">> >>),
      JoinLines(<< <<"a">>, <<"b">>, <<"c">>, <<"d">> >>) }

\* The outputs the status query can produce: three lines naming the client's
\* device while it is logged in; once that device is off the account the
\* client may still show it or may show a non-authenticated state.
StatusStdouts(cl, acct) ==
    IF cl = NoDevice THEN BadStatusStdouts
    ELSE IF cl \in Range(acct) THEN { StatusStdout(cl) }
    ELSE { StatusStdout(cl) } \cup BadStatusStdouts

----------------------------------------------------------------------------
VARIABLES
    \* the program
    pc,                  \* position of the single thread of control
    ctx,                 \* "startup" (main.py:148) or "loop" (main.py:150-166)
    local_device,        \* run_monitoring_loop's local_device
    cleanup_local,       \* cleanup_devices' parameter local_device
    whitelist,           \* cleanup_devices' whitelist
    devices,             \* cleanup_devices' devices
    idx,                 \* position of the for loop over devices
    local_device_found,  \* cleanup_devices' local_device_found
    token,               \* _login_with_token's token
    log,                 \* the lines written to the log, as a set
    lastLogged,          \* the last line written to the log
    exit_status,         \* "running", "0", "1" or "interrupt" (unhandled)
    \* the environment
    account,             \* devices registered to the account, in listing order
    client,              \* device the control client is logged in as
    tokenFile,
    whitelistFile,
    envChanges,          \* external changes made so far
    \* history
    passes,              \* reconciliation passes started
    passResult,          \* "none", "running", "true", "false", "error", "interrupt"
    listed,              \* the current pass has fetched its device listing
    revoked,             \* devices for which this pass issued a revoke, in order
    cmdCount,            \* logout, login and connect commands executed
    cmdFailed,           \* some external command failed or was not found
    firstStatus,         \* outcome of the first status query
    raisedAt,            \* position at which the last exception was raised
    errors,              \* exceptions caught by the monitoring loop
    interruptAt,         \* position at which the user interrupt arrived
    ownRevoked,          \* a revoke was issued for the client's own device
    prev,                \* the previous pass's listing less the devices it
                         \* revoked (until the next listing), and whether
                         \* this pass repeats it (see GetAccountDevices)
    statusThree,         \* the last status query returned exactly three lines
    paused               \* a sleep or a re-authentication command since the
                         \* last pass started

progVars == <<pc, ctx, local_device, cleanup_local, whitelist, devices, idx,
              local_device_found, token, log, lastLogged, exit_status>>
envVars == <<account, client, tokenFile, whitelistFile, envChanges>>
histVars == <<passes, passResult, listed, revoked, cmdCount, cmdFailed,
              firstStatus, raisedAt, errors, interruptAt, ownRevoked,
              prev, statusThree, paused>>
vars == <<progVars, envVars, histVars>>

----------------------------------------------------------------------------
\* Logging and exceptions.

Entry(level, msg, text) == [level |-> level, msg |-> msg, text |-> text]
NoEntry == Entry("", "", <<>>)

Exc(type, text) == [type |-> type, text |-> text]
NoExc == Exc("none", <<>>)

\* ' '.join(cmd)
CmdText(cmd) ==
    <<"mullvad">> \o cmd.words \o (IF cmd.arg = <<>> THEN <<>> ELSE cmd.arg)

Cmd(words, arg) == [words |-> words, arg |-> arg]

\* subprocess.run rejects stdout/stderr given together with capture_output.
KwargsConflictNever(capture_output, suppress_output) == FALSE

KwargsConflict(capture_output, suppress_output) ==
    capture_output /\ suppress_output

\* _run_command: what it raises and logs, and whether the command ran.
\* outcome is the external command's behaviour: "ok", "fail" (non-zero exit)
\* or "notfound" (no such binary).
RunCommand(cmd, capture_output, suppress_output, outcome) ==
    IF KwargsConflict(capture_output, suppress_output)
    THEN [exc |-> Exc("ValueError",
                      <<"stdout and stderr arguments may not be used with capture_output.">>),
          logs |-> <<>>, ran |-> FALSE, failed |-> FALSE]
    ELSE IF outcome = "fail"
    THEN LET e == Exc("CalledProcessError",
                      <<"Command">> \o CmdText(cmd) \o <<"returned non-zero exit status 1.">>)
         IN  [exc |-> e,
              logs |-> <<Entry("ERROR", "Command failed", CmdText(cmd) \o <<"-">> \o e.text)>>,
              ran |-> TRUE, failed |-> TRUE]
    ELSE IF outcome = "notfound"
    THEN [exc |-> Exc("FileNotFoundError", <<"No such file or directory:", "mullvad">>),
          logs |-> <<Entry("ERROR", "Command not found", <<"mullvad">>)>>,
          ran |-> FALSE, failed |-> TRUE]
    ELSE [exc |-> NoExc, logs |-> <<>>, ran |-> TRUE, failed |-> FALSE]

Outcomes == {"ok", "fail", "notfound"}

\* Where an exception raised at context c ends up: the loop's handler
\* (main.py:164-166) or main's (main.py:175-177).
HandleAlwaysFatal(e, c) ==
    [pc |-> "exit", exit |-> "1", entry |-> Entry("ERROR", "Fatal error", e.text)]

HandleAlwaysInLoop(e, c) ==
    [pc |-> "backoff", exit |-> "running",
     entry |-> Entry("ERROR", "Unexpected error", e.text)]

Handle(e, c) ==
    IF c = "loop"
    THEN [pc |-> "backoff", exit |-> "running",
          entry |-> Entry("ERROR", "Unexpected error", e.text)]
    ELSE [pc |-> "exit", exit |-> "1",
          entry |-> Entry("ERROR", "Fatal error", e.text)]

\* Whether a KeyboardInterrupt arriving at position p is caught by the
\* loop's handler (main.py:161-163): only inside the try body.
InterruptCaughtAnywhere(p, c) == TRUE

InterruptCaught(p, c) == c = "loop" /\ p # "backoff"

Write(entries) ==
    /\ log' = log \cup Range(entries)
    /\ lastLogged' = IF entries = <<>> THEN lastLogged ELSE entries[Len(entries)]

\* An exception e leaves the current function at position pc, after the
\* lines `before` were logged.
Raise(e, before) ==
    LET h == Handle(e, ctx)
    IN  /\ pc' = h.pc
        /\ exit_status' = h.exit
        /\ Write(before \o <<h.entry>>)
        /\ raisedAt' = pc
        /\ errors' = IF ctx = "loop" /\ errors < MaxPasses THEN errors + 1 ELSE errors
        /\ passResult' = IF passResult = "running" THEN "error" ELSE passResult

----------------------------------------------------------------------------
\* Parsing of files and command output.

StripEach(ls) == [i \in 1..Len(ls) |-> Strip(ls[i])]

\* get_whitelist's list comprehension over the file's lines.
ParseWhitelist(text) ==
    StripEach(SelectSeq(SplitLines(Strip(text)), LAMBDA l : Strip(l) # <<>>))

\* get_whitelist: the list it returns, what it logs and what it raises.
LoadWhitelistCached(file) ==
    IF passes > 0
    THEN [exc |-> NoExc, value |-> whitelist, logs |-> <<>>]
    ELSE [exc |-> NoExc,
          value |-> IF file.exists THEN ParseWhitelist(file.text) ELSE <<>>,
          logs |-> <<>>]

LoadWhitelistRaising(file) ==
    IF ~file.exists
    THEN [exc |-> Exc("FileNotFoundError", <<"Whitelist file not found:", "whitelist">>),
          value |-> <<>>, logs |-> <<>>]
    ELSE [exc |-> NoExc, value |-> ParseWhitelist(file.text), logs |-> <<>>]

LoadWhitelist(file) ==
    IF ~file.exists
    THEN [exc |-> NoExc, value |-> <<>>,
          logs |-> <<Entry("WARNING", "Whitelist file not found", <<"whitelist">>)>>]
    ELSE [exc |-> NoExc, value |-> ParseWhitelist(file.text), logs |-> <<>>]

\* get_account_devices' loop over the listing's lines.
ParseDevices(stdout) ==
    SelectSeq(StripEach(SplitLines(Strip(stdout))),
              LAMBDA l : l # <<>> /\ l # DeviceListHeader)

\* _get_account_info's result.stdout.strip().splitlines()
StatusLines(stdout) == SplitLines(Strip(stdout))

\* get_local_device_name's test "not lines or len(lines) != 3" (main.py:87);
\* a status command that exited non-zero gives None, here the empty list.
NeedsReauthBelowThree(lines) == lines = <<>> \/ Len(lines) < 3

NeedsReauth(lines) == lines = <<>> \/ Len(lines) # 3

\* get_local_device_name's extraction from the third status line.
DeviceNameOf(lines) == Strip(Replace(lines[3], DeviceNameLabel))

\* cleanup_devices' three-way branch on one listed device.
ClassifyIgnoringWhitelist(d, local, wl) ==
    IF d = local THEN "local" ELSE "unauthorized"

ClassifyWhitelistFirst(d, local, wl) ==
    IF d \in Range(wl) THEN "whitelisted"
    ELSE IF d = local THEN "local"
    ELSE "unauthorized"

ClassifyIgnoringLocal(d, local, wl) ==
    IF d \in Range(wl) THEN "whitelisted" ELSE "unauthorized"

Classify(d, local, wl) ==
    IF d = local THEN "local"
    ELSE IF d \in Range(wl) THEN "whitelisted"
    ELSE "unauthorized"

\* The for loop's step to the next listed device (main.py:134).
NextIndexSkippingAfterRevoke(i, class) ==
    IF class = "unauthorized" THEN i + 2 ELSE i + 1

NextIndex(i, class) == i + 1

----------------------------------------------------------------------------
Init ==
    /\ pc = "start"
    /\ ctx = "startup"
    /\ local_device = NoDevice
    /\ cleanup_local = NoDevice
    /\ whitelist = <<>>
    /\ devices = <<>>
    /\ idx = 1
    /\ local_device_found = FALSE
    /\ token = <<>>
    /\ log = {}
    /\ lastLogged = NoEntry
    /\ exit_status = "running"
    /\ account \in InjectiveSeqs(BaseDevices, MaxDevices)
    /\ client \in BaseDevices \cup {NoDevice}
    /\ tokenFile \in TokenFiles
    /\ whitelistFile \in WhitelistFiles
    /\ envChanges = 0
    /\ passes = 0
    /\ passResult = "none"
    /\ listed = FALSE
    /\ revoked = <<>>
    /\ cmdCount = [logout |-> 0, login |-> 0, connect |-> 0]
    /\ cmdFailed = FALSE
    /\ firstStatus = "none"
    /\ raisedAt = "none"
    /\ errors = 0
    /\ interruptAt = "none"
    /\ ownRevoked = FALSE
    /\ prev = [kept |-> <<>>, repeat |-> FALSE]
    /\ statusThree = FALSE
    /\ paused = FALSE

\* run_monitoring_loop's first statement (main.py:146).
StartMonitoring ==
    /\ pc = "start"
    /\ pc' = "status"
    /\ Write(<<Entry("INFO", "Starting Mullvad device monitoring...", <<>>)>>)
    /\ UNCHANGED <<ctx, local_device, cleanup_local, whitelist, devices, idx,
                   local_device_found, token, exit_status>>
    /\ UNCHANGED <<envVars, histVars>>

\* get_local_device_name up to its return or its call of _login_with_token.
GetLocalDeviceName ==
    /\ pc = "status"
    /\ \E outcome \in Outcomes, stdout \in StatusStdouts(client, account) :
        LET r == RunCommand(Cmd(<<"account", "get">>, <<>>), TRUE, FALSE, outcome)
            none == r.exc.type = "CalledProcessError"
            propagates == r.exc # NoExc /\ ~none
            lines == IF none THEN <<>> ELSE StatusLines(stdout)
            valid == ~NeedsReauth(lines)
        IN  /\ cmdFailed' = (cmdFailed \/ r.failed)
            /\ statusThree' = (r.exc = NoExc /\ Len(SplitLines(Strip(stdout))) = 3)
            /\ firstStatus' = IF firstStatus # "none" THEN firstStatus
                              ELSE IF propagates THEN "notfound"
                              ELSE IF valid THEN "three" ELSE "other"
            /\ IF propagates
               THEN /\ Raise(r.exc, r.logs)
                    /\ UNCHANGED <<ctx, local_device>>
               ELSE IF ~valid
               THEN /\ Write(r.logs \o
                          <<Entry("WARNING", "Invalid account info, re-authenticating...", <<>>)>>)
                    /\ pc' = "reauth"
                    /\ UNCHANGED <<ctx, local_device, exit_status, raisedAt, errors, passResult>>
               ELSE /\ Write(<<Entry("INFO", "Local device", DeviceNameOf(lines))>>)
                    /\ local_device' = DeviceNameOf(lines)
                    /\ ctx' = "loop"
                    /\ pc' = "whitelist"
                    /\ UNCHANGED <<exit_status, raisedAt, errors, passResult>>
    /\ UNCHANGED <<cleanup_local, whitelist, devices, idx, local_device_found, token>>
    /\ UNCHANGED <<envVars, passes, listed, revoked, cmdCount, interruptAt, ownRevoked,
                   prev, paused>>

\* _login_with_token up to its first command (main.py:71-78).
LoginWithToken ==
    /\ pc = "reauth"
    /\ IF ~tokenFile.exists
       THEN /\ Raise(Exc("FileNotFoundError", <<"Token file not found:", "token">>), <<>>)
            /\ UNCHANGED token
       ELSE IF Strip(tokenFile.text) = <<>>
       THEN /\ Raise(Exc("ValueError", <<"Token file is empty">>), <<>>)
            /\ UNCHANGED token
       ELSE /\ token' = Strip(tokenFile.text)
            /\ Write(<<Entry("INFO", "Logging out and re-authenticating...", <<>>)>>)
            /\ pc' = "logout"
            /\ UNCHANGED <<exit_status, raisedAt, errors, passResult>>
    /\ UNCHANGED <<ctx, local_device, cleanup_local, whitelist, devices, idx,
                   local_device_found>>
    /\ UNCHANGED <<envVars, passes, listed, revoked, cmdCount, cmdFailed,
                   firstStatus, interruptAt, ownRevoked, prev, statusThree, paused>>

\* The command _login_with_token issues at position p (main.py:79-81).
ReauthCmd(p) ==
    CASE p = "logout"  -> Cmd(<<"account", "logout">>, <<>>)
      [] p = "login"   -> Cmd(<<"account", "login">>, token)
      [] p = "connect" -> Cmd(<<"connect">>, <<>>)

\* capture_output and suppress_output as passed at position p.
ReauthCapture(p) == p # "connect"
ReauthSuppress(p) == p # "connect"

ReauthNext(p) ==
    CASE p = "logout"  -> "login"
      [] p = "login"   -> "connect"
      [] p = "connect" -> "status"

\* One command of _login_with_token; after connect, get_local_device_name
\* calls itself (main.py:90).
ReauthCommand ==
    /\ pc \in {"logout", "login", "connect"}
    /\ \E outcome \in Outcomes, fresh \in AllDevices \ (Range(account) \cup {client}) :
        LET r == RunCommand(ReauthCmd(pc), ReauthCapture(pc), ReauthSuppress(pc), outcome)
        IN  /\ cmdFailed' = (cmdFailed \/ r.failed)
            /\ cmdCount' = IF r.ran THEN [cmdCount EXCEPT ![pc] = @ + 1] ELSE cmdCount
            /\ paused' = (paused \/ r.ran)
            /\ IF r.exc # NoExc
               THEN /\ Raise(r.exc, r.logs)
                    /\ UNCHANGED <<account, client>>
               ELSE /\ pc' = ReauthNext(pc)
                    /\ account' = IF pc = "logout" THEN RemoveName(account, client)
                                  ELSE IF pc = "login" THEN Append(account, fresh)
                                  ELSE account
                    /\ client' = IF pc = "logout" THEN NoDevice
                                 ELSE IF pc = "login" THEN fresh
                                 ELSE client
                    /\ UNCHANGED <<log, lastLogged, exit_status, raisedAt, errors, passResult>>
    /\ UNCHANGED <<ctx, local_device, cleanup_local, whitelist, devices, idx,
                   local_device_found, token>>
    /\ UNCHANGED <<tokenFile, whitelistFile, envChanges>>
    /\ UNCHANGED <<passes, listed, revoked, firstStatus, interruptAt, ownRevoked,
                   prev, statusThree>>

----------------------------------------------------------------------------
\* The reconciliation pass.

\* cleanup_devices' call of get_whitelist (main.py:129, 96-104).
StartPass ==
    /\ pc = "whitelist"
    /\ LET w == LoadWhitelist(whitelistFile)
       IN  IF w.exc # NoExc
           THEN /\ Raise(w.exc, w.logs)
                /\ UNCHANGED whitelist
           ELSE /\ pc' = "list"
                /\ whitelist' = w.value
                /\ Write(w.logs)
                /\ passResult' = "running"
                /\ UNCHANGED <<exit_status, raisedAt, errors>>
    /\ cleanup_local' = local_device
    /\ devices' = <<>>
    /\ idx' = 1
    /\ local_device_found' = FALSE
    /\ passes' = IF passes < MaxPasses THEN passes + 1 ELSE passes
    /\ listed' = FALSE
    /\ revoked' = <<>>
    /\ prev' = [kept |-> SelectSeq(devices, LAMBDA d : d \notin Range(revoked)),
                repeat |-> /\ passResult \in {"true", "false"}
                           /\ local_device = cleanup_local
                           /\ LoadWhitelist(whitelistFile).value = whitelist]
    /\ paused' = FALSE
    /\ UNCHANGED <<ctx, local_device, token>>
    /\ UNCHANGED <<envVars, cmdCount, cmdFailed, firstStatus, interruptAt, ownRevoked,
                   statusThree>>

\* The passes observed are counted and capped at MaxPasses.
GetWhitelist ==
    /\ passes < MaxPasses
    /\ StartPass

\* cleanup_devices' call of get_account_devices (main.py:130-132, 106-117).
GetAccountDevices ==
    /\ pc = "list"
    /\ \E outcome \in Outcomes :
        LET r == RunCommand(Cmd(<<"account", "list-devices">>, <<>>), TRUE, FALSE, outcome)
        IN  /\ cmdFailed' = (cmdFailed \/ r.failed)
            /\ IF r.exc # NoExc
               THEN /\ Raise(r.exc, r.logs)
                    /\ prev' = [prev EXCEPT !.kept = <<>>, !.repeat = FALSE]
                    /\ UNCHANGED <<devices, listed>>
               ELSE /\ devices' = ParseDevices(ListStdout(account))
                    /\ prev' = [prev EXCEPT !.kept = <<>>,
                                            !.repeat = prev.repeat /\ devices' = prev.kept]
                    /\ listed' = TRUE
                    /\ pc' = "iter"
                    /\ UNCHANGED <<log, lastLogged, exit_status, raisedAt, errors, passResult>>
    /\ UNCHANGED <<ctx, local_device, cleanup_local, whitelist, idx,
                   local_device_found, token>>
    /\ UNCHANGED <<envVars, passes, revoked, cmdCount, firstStatus, interruptAt,
                   ownRevoked, statusThree, paused>>

\* One iteration of cleanup_devices' for loop, remove_device included, or
\* its return to the monitoring loop (main.py:134-142, 119-125, 152-159).
CleanupStep ==
    /\ pc = "iter"
    /\ IF idx > Len(devices)
       THEN /\ IF local_device_found
               THEN /\ pc' = "sleep"
                    /\ passResult' = "true"
                    /\ UNCHANGED <<log, lastLogged>>
               ELSE /\ pc' = "status"
                    /\ passResult' = "false"
                    /\ Write(<<Entry("WARNING",
                                     "Local device was removed, re-authenticating...", <<>>)>>)
            /\ UNCHANGED <<idx, local_device_found, exit_status, account, revoked,
                           cmdFailed, raisedAt, errors, ownRevoked>>
       ELSE LET d == devices[idx]
                class == Classify(d, cleanup_local, whitelist)
            IN  IF class # "unauthorized"
                THEN /\ local_device_found' = (local_device_found \/ class = "local")
                     /\ idx' = NextIndex(idx, class)
                     /\ UNCHANGED <<pc, log, lastLogged, exit_status, account, revoked,
                                    cmdFailed, raisedAt, errors, passResult, ownRevoked>>
                ELSE \E outcome \in Outcomes :
                     LET r == RunCommand(Cmd(<<"account", "revoke-device">>, d),
                                         FALSE, FALSE, outcome)
                         removing == <<Entry("INFO", "Removing unauthorized device", d)>>
                     IN  /\ revoked' = Append(revoked, d)
                         /\ cmdFailed' = (cmdFailed \/ r.failed)
                         /\ ownRevoked' = (ownRevoked \/
                                            (r.ran /\ d = client /\ d \in Range(account)))
                         /\ UNCHANGED local_device_found
                         /\ IF r.exc # NoExc
                            THEN /\ Raise(r.exc, removing \o r.logs)
                                 /\ UNCHANGED <<idx, account>>
                            ELSE /\ account' = RemoveName(account, d)
                                 /\ idx' = NextIndex(idx, class)
                                 /\ Write(removing)
                                 /\ UNCHANGED <<pc, exit_status, raisedAt, errors, passResult>>
    /\ UNCHANGED <<ctx, local_device, cleanup_local, whitelist, devices, token>>
    /\ UNCHANGED <<client, tokenFile, whitelistFile, envChanges>>
    /\ UNCHANGED <<passes, listed, cmdCount, firstStatus, interruptAt, prev,
                   statusThree, paused>>

\* time.sleep(self.check_interval) (main.py:156).
Sleep ==
    /\ pc = "sleep"
    /\ pc' = "whitelist"
    /\ UNCHANGED <<ctx, local_device, cleanup_local, whitelist, devices, idx,
                   local_device_found, token, log, lastLogged, exit_status>>
    /\ paused' = TRUE
    /\ UNCHANGED <<envVars, passes, passResult, listed, revoked, cmdCount, cmdFailed,
                   firstStatus, raisedAt, errors, interruptAt, ownRevoked, prev,
                   statusThree>>

\* time.sleep(10) in the loop's exception handler (main.py:166).
Backoff ==
    /\ pc = "backoff"
    /\ pc' = "whitelist"
    /\ UNCHANGED <<ctx, local_device, cleanup_local, whitelist, devices, idx,
                   local_device_found, token, log, lastLogged, exit_status>>
    /\ paused' = TRUE
    /\ UNCHANGED <<envVars, passes, passResult, listed, revoked, cmdCount, cmdFailed,
                   firstStatus, raisedAt, errors, interruptAt, ownRevoked, prev,
                   statusThree>>

\* A KeyboardInterrupt arrives (main.py:161-163, 173-179).
Interrupt ==
    /\ pc # "exit"
    /\ pc' = "exit"
    /\ interruptAt' = pc
    /\ passResult' = IF passResult = "running" THEN "interrupt" ELSE passResult
    /\ IF InterruptCaught(pc, ctx)
       THEN /\ exit_status' = "0"
            /\ Write(<<Entry("INFO", "Monitoring stopped by user", <<>>)>>)
       ELSE /\ exit_status' = "interrupt"
            /\ UNCHANGED <<log, lastLogged>>
    /\ UNCHANGED <<ctx, local_device, cleanup_local, whitelist, devices, idx,
                   local_device_found, token>>
    /\ UNCHANGED <<envVars, passes, listed, revoked, cmdCount, cmdFailed,
                   firstStatus, raisedAt, errors, ownRevoked, prev, statusThree, paused>>

----------------------------------------------------------------------------
\* The environment, between two passes: devices leave the account, new
\* devices join it and the operator edits the whitelist file.  A change before the first pass
\* is a different initial state; one after the last pass is never observed.

BetweenPasses ==
    /\ pc = "whitelist"
    /\ passes >= 1
    /\ passes < MaxPasses
    /\ envChanges < MaxEnvChanges

Evict ==
    /\ BetweenPasses
    /\ \E d \in Range(account) : account' = RemoveName(account, d)
    /\ envChanges' = envChanges + 1
    /\ UNCHANGED <<progVars, histVars, client, tokenFile, whitelistFile>>

Join ==
    /\ BetweenPasses
    /\ Len(account) < MaxDevices
    /\ \E d \in FreshDevices \ (Range(account) \cup {client}) :
          account' = Append(account, d)
    /\ envChanges' = envChanges + 1
    /\ UNCHANGED <<progVars, histVars, client, tokenFile, whitelistFile>>

EditWhitelist ==
    /\ BetweenPasses
    /\ \E w \in WhitelistFiles \ {whitelistFile} : whitelistFile' = w
    /\ envChanges' = envChanges + 1
    /\ UNCHANGED <<progVars, histVars, account, client, tokenFile>>

----------------------------------------------------------------------------
Next ==
    \/ StartMonitoring
    \/ GetLocalDeviceName
    \/ LoginWithToken
    \/ ReauthCommand
    \/ GetWhitelist
    \/ GetAccountDevices
    \/ CleanupStep
    \/ Sleep
    \/ Backoff
    \/ Interrupt
    \/ Evict
    \/ Join
    \/ EditWhitelist

Spec == Init /\ [][Next]_vars

\* The daemon left to itself, for as long as it runs: no interrupt, an
\* unchanging account and whitelist file, and no cap on the passes.
LiveNext ==
    \/ StartMonitoring
    \/ GetLocalDeviceName
    \/ LoginWithToken
    \/ ReauthCommand
    \/ StartPass
    \/ GetAccountDevices
    \/ CleanupStep
    \/ Sleep
    \/ Backoff

\* The interpreter keeps executing the single thread until the process
\* exits: every step of LiveNext moves the position or the for loop's index,
\* and one is enabled at every position but "exit".
Positions ==
    {"start", "status", "reauth", "logout", "login", "connect",
     "whitelist", "list", "iter", "sleep", "backoff", "exit"}

Executes ==
    /\ pc # "exit"
    /\ \E p \in Positions, i \in 1..(MaxDevices + 2) : pc' = p /\ idx' = i

LiveSpec == Init /\ [][LiveNext]_vars /\ WF_<<pc, idx>>(Executes)

----------------------------------------------------------------------------
\* Properties.

TokenValid == tokenFile.exists /\ Strip(tokenFile.text) # <<>>
AuthToken == Strip(tokenFile.text)

\* The listed devices that are neither local nor whitelisted, in listing order.
Unauthorized(D, L, W) == SelectSeq(D, LAMBDA d : d # L /\ d \notin Range(W))

PassReturned == passResult \in {"true", "false"}

C2_AccountAfterPass ==
    (pc = "sleep" /\ passResult = "true") =>
        /\ Range(account) =
              (Range(devices) \cap Range(whitelist)) \cup {cleanup_local}
        /\ revoked = Unauthorized(devices, cleanup_local, whitelist)
        /\ \A d \in Range(devices) \ (Range(whitelist) \cup {cleanup_local}) :
              Cardinality({ i \in 1..Len(revoked) : revoked[i] = d }) = 1

C2_Witness ==
    /\ pc = "sleep"
    /\ Len(revoked) = 2
    /\ revoked[1] # revoked[2]

C4_ReauthAfterLoss ==
    (/\ passResult = "false"
     /\ token # <<>>
     /\ ~cmdFailed
     /\ interruptAt = "none"
     /\ pc \in {"whitelist", "backoff"}) =>
        /\ pc = "whitelist"
        /\ cmdCount.login >= 1
        /\ local_device = client
        /\ client \in Range(account)

\* C5: an exception raised inside the monitoring loop is logged and followed
\* by the backoff sleep with the local identity unchanged; the backoff is
\* followed by the next pass, which runs with that identity; only a failure
\* before the loop ends the process with status 1.
C5_LoopErrorsAbsorbed ==
    [][ /\ errors' > errors =>
             /\ pc' = "backoff"
             /\ exit_status' = "running"
             /\ local_device' = local_device
             /\ lastLogged'.msg = "Unexpected error"
        /\ (pc = "backoff" /\ pc' \notin {"backoff", "exit"}) =>
             /\ pc' = "whitelist"
             /\ local_device' = local_device
        /\ (pc = "whitelist" /\ pc' = "list") => cleanup_local' = local_device
        /\ exit_status' = "1" => (ctx = "startup" /\ errors' = 0) ]_vars

\* The pass after a failed re-resolution is under way.
C5_Witness ==
    /\ pc = "list"
    /\ passes = 2
    /\ errors = 1
    /\ raisedAt = "logout"
    /\ cleanup_local = local_device

\* C6 as stated: a user interrupt, wherever it arrives, ends the process
\* with exit status 0.
C6_InterruptExitsCleanly ==
    interruptAt # "none" => exit_status = "0"

C8_StartupWithoutToken ==
    (firstStatus = "other" /\ ~TokenValid) =>
        /\ cmdCount = [logout |-> 0, login |-> 0, connect |-> 0]
        /\ passes = 0
        /\ pc \in {"reauth", "exit"}
        /\ (pc = "exit" /\ interruptAt = "none") => exit_status = "1"

C8_Witness ==
    /\ firstStatus = "other"
    /\ ~TokenValid
    /\ exit_status = "1"
    /\ raisedAt = "reauth"

C10_StartupFromUnauthenticated ==
    (/\ firstStatus = "other"
     /\ TokenValid
     /\ ~cmdFailed
     /\ interruptAt = "none") =>
        /\ exit_status = "running"
        /\ (passes = 1 /\ passResult # "running") =>
              /\ cmdCount.login = 1
              /\ cleanup_local = client
              /\ passResult = "true"
              /\ revoked = Unauthorized(devices, cleanup_local, whitelist)

\* The whitelist file's entries as get_whitelist reads them now.
FileWhitelist ==
    IF whitelistFile.exists THEN ParseWhitelist(whitelistFile.text) ELSE <<>>

\* A pass has started and the whitelist file is as that pass found it: the
\* file changes only between passes.
SincePassStart ==
    /\ passes >= 1
    /\ pc \in {"list", "iter", "sleep", "status", "reauth", "backoff"}

\* C11: each pass decides against the whitelist file as of that pass: the
\* list it uses is the file's current content, no device the file names is
\* revoked, and a pass that returns has revoked every listed device, other
\* than the local one, that the file does not name, whatever the file held
\* during earlier passes.
C11_WhitelistReadEachPass ==
    SincePassStart =>
        /\ whitelist = FileWhitelist
        /\ \A d \in Range(revoked) : d \notin Range(FileWhitelist)
        /\ PassReturned =>
              \A d \in Range(devices) :
                  (d # cleanup_local /\ d \notin Range(FileWhitelist)) =>
                      d \in Range(revoked)

\* The file did not exist during the first pass (its warning is logged) and
\* names a device now: the second pass spared that device, still listed,
\* and returned.
C11_Witness ==
    /\ passes = 2
    /\ SincePassStart
    /\ PassReturned
    /\ whitelistFile.exists
    /\ Entry("WARNING", "Whitelist file not found", <<"whitelist">>) \in log
    /\ \E d \in Range(devices) :
          /\ d \in Range(whitelist)
          /\ d # cleanup_local
          /\ d \notin Range(revoked)

\* C12: a missing whitelist file never makes the pass fail: get_whitelist
\* raises nothing, logs a warning, the pass uses the empty whitelist, and a
\* pass that returns has revoked every listed device except the local one.
C12_MissingWhitelistIsEmpty ==
    /\ raisedAt # "whitelist"
    /\ (SincePassStart /\ ~whitelistFile.exists) =>
          /\ whitelist = <<>>
          /\ Entry("WARNING", "Whitelist file not found", <<"whitelist">>) \in log
          /\ PassReturned =>
                revoked = SelectSeq(devices, LAMBDA d : d # cleanup_local)

C12_Witness ==
    /\ ~whitelistFile.exists
    /\ pc = "sleep"
    /\ passResult = "true"
    /\ Len(revoked) >= 1

\* C13: a pass that returns reports True exactly when L is in the listing it
\* fetched; when L is not listed it reports False, has issued no revoke for
\* L, and has revoked every listed device that is not whitelisted.
C13_ReturnsLocalPresence ==
    PassReturned =>
        /\ (passResult = "true") <=> (cleanup_local \in Range(devices))
        /\ passResult = "false" =>
              /\ cleanup_local \notin Range(revoked)
              /\ revoked = SelectSeq(devices, LAMBDA d : d \notin Range(whitelist))

C13_Witness ==
    /\ passResult = "false"
    /\ pc = "status"
    /\ Len(revoked) >= 1
    /\ \E d \in Range(devices) : d \in Range(whitelist)

\* C14: when a pass returned and the next pass runs with the same local
\* identity, an unchanged whitelist and a listing equal to the first pass's
\* listing less the devices that pass revoked, the next pass issues no
\* revoke command.
C14_SecondPassRevokesNothing ==
    prev.repeat => revoked = <<>>

\* The first pass revoked a device and the second, repeating it, returned.
C14_Witness ==
    /\ prev.repeat
    /\ passes = 2
    /\ PassReturned
    /\ pc \in {"sleep", "status"}
    /\ \E e \in log : e.msg = "Removing unauthorized device"

\* C15 as stated: a failure of the logout call never ends a
\* re-authentication; login and connect follow it in the same attempt.
C15_LogoutFailureIgnored ==
    /\ raisedAt # "logout"
    /\ (token # <<>> /\ pc \in {"backoff", "exit"} /\ interruptAt = "none"
           /\ raisedAt \in {"logout", "login", "connect"}) =>
          cmdCount.login >= 1

\* C16: a step of get_local_device_name returns a name, the one on the third
\* status line, if and only if the status command succeeded with exactly
\* three lines of output; otherwise it keeps the identity it had and goes on
\* to re-authenticate (a status command that cannot be started raises).
C16_NameIffThreeLines ==
    [][ (pc = "status" /\ pc' # "status" /\ interruptAt' = interruptAt) =>
            /\ (pc' = "whitelist") <=> statusThree'
            /\ statusThree' => local_device' = client
            /\ ~statusThree' =>
                  /\ local_device' = local_device
                  /\ \/ pc' = "reauth"
                     \/ pc' \in {"backoff", "exit"} /\ raisedAt' = "status" ]_vars

\* In the loop, after a name had been returned, a status output that is not
\* three lines long sent the daemon to re-authenticate.
C16_Witness ==
    /\ pc = "reauth"
    /\ ~statusThree
    /\ ctx = "loop"
    /\ local_device # NoDevice
    /\ passResult = "false"

\* C17 as stated: a re-authentication that has left its logout call, with no
\* command failing, has issued logout; login is issued only after logout,
\* connect only after login, and the status query is repeated only after
\* connect.
C17_ReauthCommandOrder ==
    /\ cmdCount.login <= cmdCount.logout
    /\ cmdCount.connect <= cmdCount.login
    /\ (token # <<>> /\ ~cmdFailed /\ interruptAt = "none" /\ pc # "logout") =>
          cmdCount.logout >= 1

\* C18 as stated: while the status query has never returned three lines, the
\* token file is valid and no command fails, identity resolution neither
\* returns nor fails: the daemon stays within the status query and the
\* re-authentication.
C18_ResolutionRetriesForever ==
    (/\ firstStatus = "other"
     /\ passes = 0
     /\ TokenValid
     /\ ~cmdFailed
     /\ interruptAt = "none") =>
        /\ pc \in {"status", "reauth", "logout", "login", "connect"}
        /\ raisedAt = "none"

\* C19 as stated: when a pass is about to start after an earlier one, the
\* daemon has slept or has issued a re-authentication command since that
\* earlier pass started.
C19_NeverSpins ==
    (pc = "whitelist" /\ passes >= 1) => paused

\* The log's line for a failed revoke command for d.
RevokeFailure(e, d) ==
    LET t == CmdText(Cmd(<<"account", "revoke-device">>, d))
    IN  /\ e.msg = "Command failed"
        /\ Len(e.text) >= Len(t)
        /\ SubSeq(e.text, 1, Len(t)) = t

\* The revoke command for d has failed at least once.
RevokeFailed(d) == \E e \in log : RevokeFailure(e, d)

\* A command other than a revoke has failed, or the binary was missing.
OtherCommandFailed ==
    \E e \in log :
        \/ e.msg = "Command not found"
        \/ e.msg = "Command failed" /\ \A d \in AllDevices : ~RevokeFailure(e, d)

\* C20 as stated: a device found listed, not whitelisted and not local in a
\* pass is eventually off the account, unless its own revoke command has
\* failed or a command other than a revoke has failed; the revokes of the
\* devices listed before it may fail on every pass.
C20_UnauthorizedEventuallyRevoked ==
    \A d \in BaseDevices :
        (pc = "iter" /\ d \in Range(Unauthorized(devices, cleanup_local, whitelist)))
            ~> (d \notin Range(account) \/ RevokeFailed(d) \/ OtherCommandFailed)

====
